---- MODULE Spec2Model ----
(***************************************************************************)
(* State-machine model of three jobs of pyiron_contrib:                     *)
(*   - DecoupledOscillators (protocol/jobs/decoupled_oscillators.py), the  *)
(*     interactive driver that combines a base engine with harmonic        *)
(*     oscillators (specification Spec; SpecSmall on chains of one or two  *)
(*     atoms);                                                             *)
(*   - FreeEnergy (protocol/jobs/free_energy.py), the staged batch         *)
(*     pipeline (SpecFE: its methods called one by one; SpecRun: the job   *)
(*     run through run_static, saved and loaded; SpecCombine: the job on   *)
(*     structures of one to three atoms with the values of its results);   *)
(*   - MlipDescriptors (atomistics/mlip/mlipdescriptors.py), its           *)
(*     attributes potential and structures (SpecMlip).                     *)
(*                                                                         *)
(* Conventions.  Python indices are 0-based: the Python row i of an array  *)
(* is element i+1 of the TLA+ sequence.  A 3-vector is represented by its  *)
(* x component (y and z are 0 in every input used here); lengths are in    *)
(* units of 0.1 Angstrom, forces in units of 0.1 eV/Angstrom and energies  *)
(* in units of 0.005 eV, so that all quantities are integers.              *)
(***************************************************************************)
EXTENDS Integers, Sequences, FiniteSets, TLC

\* ------------------------------------------------------------------ bounds
MaxAtoms == 3
MaxOsc == 2
MaxSteps == 2
MaxOpens == 1
MaxCloses == 2
CellLen == 40

\* ------------------------------------------------------- Python values
None == [isNone |-> TRUE, v |-> <<>>]
Some(x) == [isNone |-> FALSE, v |-> x]

\* a Python object that is not a list (here: None) / a list with elements of one type
NotAList == [type |-> "NoneType", etype |-> "", elems |-> <<>>]
PyList(etype, elems) == [type |-> "list", etype |-> etype, elems |-> elems]

RECURSIVE SeqsUpTo(_, _)
SeqsUpTo(S, n) ==
  IF n = 0 THEN {<<>>}
  ELSE LET shorter == SeqsUpTo(S, n - 1)
       IN shorter \cup {Append(s, x) : s \in {t \in shorter : Len(t) = n - 1}, x \in S}

RECURSIVE SumSeq(_)
SumSeq(s) == IF s = <<>> THEN 0 ELSE Head(s) + SumSeq(Tail(s))

\* Python/numpy index of a sequence of length len: -len <= i < len
ValidIndex(i, len) == -len <= i /\ i < len
NormIndex(i, len) == IF i < 0 THEN i + len ELSE i

\* list.pop(i) / Atoms.pop(i)
Pop(s, i) ==
  LET k == NormIndex(i, Len(s)) + 1
  IN [j \in 1..(Len(s) - 1) |-> IF j < k THEN s[j] ELSE s[j + 1]]

\* numpy: arr[ids] with ids a list of integers (a copy)
GetItem(arr, ids) ==
  IF \E k \in 1..Len(ids) : ~ValidIndex(ids[k], Len(arr))
  THEN [err |-> "IndexError", val |-> <<>>]
  ELSE [err |-> "none",
        val |-> [k \in 1..Len(ids) |-> arr[NormIndex(ids[k], Len(arr)) + 1]]]

\* numpy: arr[ids] = rows, in place.  rows broadcasts when it has one row; with a
\* repeated index the last assignment stays.
SetItem(arr, ids, rows) ==
  IF \E k \in 1..Len(ids) : ~ValidIndex(ids[k], Len(arr))
  THEN [err |-> "IndexError", val |-> arr]
  ELSE IF Len(rows) # Len(ids) /\ Len(rows) # 1
  THEN [err |-> "ValueError", val |-> arr]
  ELSE [err |-> "none",
        val |-> [j \in 1..Len(arr) |->
                  LET hits == {k \in 1..Len(ids) : NormIndex(ids[k], Len(arr)) + 1 = j}
                  IN IF hits = {} THEN arr[j]
                     ELSE LET last == CHOOSE k \in hits : \A h \in hits : h <= k
                          IN IF Len(rows) = 1 THEN rows[1] ELSE rows[last]]]

\* numpy: np.delete(np.arange(n), ids): the indices a .. n-1 not named by ids, ascending
RECURSIVE ArangeWithout(_, _, _)
ArangeWithout(a, n, gone) ==
  IF a >= n THEN <<>>
  ELSE (IF a \in gone THEN <<>> ELSE <<a>>) \o ArangeWithout(a + 1, n, gone)

DeleteIds(n, ids) == ArangeWithout(0, n, {NormIndex(ids[k], n) : k \in 1..Len(ids)})

\* Atoms.find_mic on a one-dimensional periodic cell of length CellLen
find_mic(d) == ((d + CellLen \div 2) % CellLen) - CellLen \div 2

\* Energies are counted in units of 0.005 eV, half the product of the length and the
\* force unit, so that the factor 0.5 of line 211 is exact on integers.

\* line 211 with the sign of the factor lost: +0.5 * x
PlusHalf(x) == x

\* -0.5 * x (line 211), in the energy unit
MinusHalf(x) == -x

\* ------------------------------------------------------ inputs of the model
NAtoms == MaxAtoms
\* the reference structure: a chain with lattice spacing 1.0 Angstrom
ReferencePositions == [a \in 1..NAtoms |-> 10 * (a - 1)]
IdRange == {-1, 0, 1, NAtoms}
\* spring constants, in the order in which they are given
SpringSeq == [i \in 1..MaxOsc |-> IF i % 2 = 1 THEN 2 ELSE 5]
EngineForces == {1, 3}
EngineEnergies == {40}

\* positions: the atoms displaced alternately by -0.4 Angstrom (given as its periodic
\* image) and by 0.2 Angstrom, and an array with one row too many
PositionInputs ==
  {[a \in 1..NAtoms |-> ReferencePositions[a] + (IF a % 2 = 1 THEN CellLen - 4 ELSE 2)],
   [a \in 1..(NAtoms + 1) |-> 10 * (a - 1) + 2]}

OscillatorInputs ==
  {NotAList, PyList("str", <<0>>)} \cup {PyList("int", s) : s \in SeqsUpTo(IdRange, MaxOsc)}

SpringInputs ==
  {NotAList, PyList("str", <<0>>)}
  \cup {PyList("int", SubSeq(SpringSeq, 1, n)) : n \in 0..MaxOsc}

\* what the base engine does when it is driven: it raises, or it returns one force per
\* atom of its structure and a potential energy
EngineOutcomes ==
  {[raises |-> TRUE, f |-> 0, e |-> 0]}
  \cup [raises : {FALSE}, f : EngineForces, e : EngineEnergies]

\* ============================================================ DecoupledOscillators
VARIABLES
  server_run_mode,    \* self.server.run_mode
  input,              \* self.input (DecoupledOscilattorsInput)
  _base_structure,    \* self._base_structure
  _base_atom_ids,     \* self._base_atom_ids
  _forces,            \* self._forces: 0 (None) or the identity of an array in arrays
  arrays,             \* the numpy arrays created by validate_ready_to_run, by identity
  interactive_cache,  \* self.interactive_cache; "forces" holds array identities
  output,             \* self.output
  base_job,           \* the child job self[self._base_name] and its engine
  hdf,                \* what self.project_hdf5 holds of this job
  reloaded,           \* the job object just loaded from the store (None after any other call)
  last_step,          \* the local variables of the run_if_interactive that just returned
  last_call           \* the last method called and the exception it raised ("none")

do_vars == <<server_run_mode, input, _base_structure, _base_atom_ids, _forces, arrays,
             interactive_cache, output, base_job, hdf, reloaded, last_step,
             last_call>>

\* the FreeEnergy job of the second specification
VARIABLES
  fe,        \* the FreeEnergy job: its input, internal fields, output and sub-jobs
  fe_call    \* the last method called and the exception it raised ("none")

fe_vars == <<fe, fe_call>>

\* the MlipDescriptors job of the specification SpecMlip
VARIABLES
  mlip_input,     \* self.input: potential_job_id and structure_container_id
  mlip_assigned,  \* the jobs last assigned to the attributes potential and structures
  mlip_call       \* the last attribute access, its argument and what it returned

mlip_vars == <<mlip_input, mlip_assigned, mlip_call>>

\* DecoupledOscilattorsInput.__init__
NewInput ==
  [structure |-> None, positions |-> None, oscillators_id_list |-> NotAList,
   spring_constants_list |-> NotAList, save_debug_data |-> FALSE, ref_job |-> None]

NewOutput ==
  [forces |-> None, energy_pot |-> None, base_forces |-> None, base_energy_pot |-> None,
   harmonic_forces |-> None, harmonic_energy_pot |-> None]

NewCache ==
  [forces |-> <<>>, energy_pot |-> <<>>, base_forces |-> <<>>, base_energy_pot |-> <<>>,
   harmonic_forces |-> <<>>, harmonic_energy_pot |-> <<>>]

NoBaseJob ==
  [exists |-> FALSE, structure |-> <<>>, saved |-> FALSE, sessions_open |-> 0,
   opened |-> 0, closed |-> 0]

NoStep ==
  [base_forces |-> <<>>, base_energy_pot |-> 0, harmonic_forces |-> <<>>,
   harmonic_energy_pot |-> 0]

Raised(err, r) == [r EXCEPT !.err = err]

\* _check_inputs without the assertion of lines 140-141 (the two lists have one length)
_check_inputs_no_length_check(run_mode, inp, base) ==
  LET inp1 == IF inp.structure.isNone THEN [inp EXCEPT !.structure = inp.ref_job] ELSE inp
      got == [err |-> "none", input |-> inp1, _base_structure |-> inp1.structure]
      osc == inp.oscillators_id_list
      k == inp.spring_constants_list
  IN IF run_mode # "interactive"
       THEN [err |-> "TypeError", input |-> inp, _base_structure |-> base]
     ELSE IF inp.structure.isNone /\ inp.ref_job.isNone
       THEN [err |-> "AttributeError", input |-> inp, _base_structure |-> base]
     ELSE IF inp.positions.isNone THEN Raised("AssertionError", got)
     ELSE IF osc.type # "list" THEN Raised("ValueError", got)
     ELSE IF osc.elems # <<>> /\ osc.etype # "int" THEN Raised("ValueError", got)
     ELSE IF k.type # "list" THEN Raised("ValueError", got)
     ELSE IF k.elems # <<>> /\ k.etype \notin {"int", "float"} THEN Raised("ValueError", got)
     ELSE got

\* DecoupledOscillators._check_inputs
_check_inputs(run_mode, inp, base) ==
  LET inp1 == IF inp.structure.isNone THEN [inp EXCEPT !.structure = inp.ref_job] ELSE inp
      got == [err |-> "none", input |-> inp1, _base_structure |-> inp1.structure]
      osc == inp.oscillators_id_list
      k == inp.spring_constants_list
  IN IF run_mode # "interactive"
       THEN [err |-> "TypeError", input |-> inp, _base_structure |-> base]
     ELSE IF inp.structure.isNone /\ inp.ref_job.isNone
       THEN [err |-> "AttributeError", input |-> inp, _base_structure |-> base]
     ELSE IF inp.positions.isNone THEN Raised("AssertionError", got)
     ELSE IF osc.type # "list" THEN Raised("ValueError", got)
     ELSE IF osc.elems # <<>> /\ osc.etype # "int" THEN Raised("ValueError", got)
     ELSE IF k.type # "list" THEN Raised("ValueError", got)
     ELSE IF k.elems # <<>> /\ k.etype \notin {"int", "float"} THEN Raised("ValueError", got)
     ELSE IF Len(osc.elems) # Len(k.elems) THEN Raised("AssertionError", got)
     ELSE got

\* the loop of lines 149-151: pop the atoms sorted[i+1..] from base
RECURSIVE PopOscillators(_, _, _)
PopOscillators(base, sorted, i) ==
  IF i >= Len(sorted) THEN [err |-> "none", val |-> base]
  ELSE LET new_atom_id == sorted[i + 1] - i
       IN IF ~ValidIndex(new_atom_id, Len(base)) THEN [err |-> "IndexError", val |-> base]
          ELSE PopOscillators(Pop(base, new_atom_id), sorted, i + 1)

\* _set_base_structure without the np.sort of line 149: the ids are popped as given
_set_base_structure_unsorted(inp, base, ids) ==
  LET osc == inp.oscillators_id_list.elems
      popped == PopOscillators(base.v, osc, 0)
  IN IF popped.err # "none"
       THEN [err |-> popped.err, _base_structure |-> Some(popped.val), _base_atom_ids |-> ids]
     ELSE [err |-> "none", _base_structure |-> Some(popped.val),
           _base_atom_ids |-> Some(DeleteIds(Len(inp.structure.v), osc))]

\* DecoupledOscillators._set_base_structure
_set_base_structure(inp, base, ids) ==
  LET osc == inp.oscillators_id_list.elems
      popped == PopOscillators(base.v, SortSeq(osc, <), 0)
  IN IF popped.err # "none"
       THEN [err |-> popped.err, _base_structure |-> Some(popped.val), _base_atom_ids |-> ids]
     ELSE [err |-> "none", _base_structure |-> Some(popped.val),
           _base_atom_ids |-> Some(DeleteIds(Len(inp.structure.v), osc))]

\* DecoupledOscillators._create_base_job: the child job is registered under _base_name
\* once; interactive_open / interactive_initialize_interface start an engine session on it
_create_base_job(inp, base, job) ==
  IF inp.ref_job.isNone THEN [err |-> "AttributeError", base_job |-> job]
  ELSE [err |-> "none",
        base_job |-> [exists |-> TRUE, structure |-> base.v, saved |-> TRUE,
                      sessions_open |-> job.sessions_open + 1,
                      opened |-> job.opened + 1, closed |-> job.closed]]

\* DecoupledOscillators._calc_static_base_job, the engine answering with eng
_calc_static_base_job(inp, ids, job, eng) ==
  LET fail(e) == [err |-> e, forces |-> <<>>, energy_pot |-> 0]
  IN IF ~job.exists THEN fail("AttributeError")
     ELSE IF inp.positions.isNone \/ ids.isNone THEN fail("TypeError")
     ELSE IF GetItem(inp.positions.v, ids.v).err # "none" THEN fail("IndexError")
     ELSE IF eng.raises THEN fail("EngineError")
     ELSE [err |-> "none", forces |-> [j \in 1..Len(job.structure) |-> eng.f],
           energy_pot |-> eng.e]

\* _calc_harmonic taking the displacements of line 208 in ascending order of the ids
_calc_harmonic_sorted(inp) ==
  LET fail(e) == [err |-> e, harmonic_forces |-> <<>>, harmonic_energy_pot |-> 0]
      reference_positions == inp.structure.v
      pos == inp.positions.v
      osc == inp.oscillators_id_list.elems
      spring_constants == inp.spring_constants_list.elems
  IN IF Len(pos) # Len(reference_positions) THEN fail("ValueError")
     ELSE LET dr == [a \in 1..Len(pos) |-> find_mic(pos[a] - reference_positions[a])]
              sel == GetItem(dr, SortSeq(osc, <))
          IN IF sel.err # "none" THEN fail(sel.err)
             ELSE LET harmonic_forces ==
                        [i \in 1..Len(osc) |-> (-spring_constants[i]) * sel.val[i]]
                      terms == [i \in 1..Len(osc) |->
                                 MinusHalf(dr[NormIndex(osc[i], Len(dr)) + 1]
                                           * harmonic_forces[i])]
                  IN [err |-> "none", harmonic_forces |-> harmonic_forces,
                      harmonic_energy_pot |-> SumSeq(terms)]

\* DecoupledOscillators._calc_harmonic
_calc_harmonic(inp) ==
  LET fail(e) == [err |-> e, harmonic_forces |-> <<>>, harmonic_energy_pot |-> 0]
      reference_positions == inp.structure.v
      pos == inp.positions.v
      osc == inp.oscillators_id_list.elems
      spring_constants == inp.spring_constants_list.elems
  IN IF Len(pos) # Len(reference_positions) THEN fail("ValueError")
     ELSE LET dr == [a \in 1..Len(pos) |-> find_mic(pos[a] - reference_positions[a])]
              sel == GetItem(dr, osc)
          IN IF sel.err # "none" THEN fail(sel.err)
             ELSE LET harmonic_forces ==
                        [i \in 1..Len(osc) |-> (-spring_constants[i]) * sel.val[i]]
                      terms == [i \in 1..Len(osc) |->
                                 MinusHalf(dr[NormIndex(osc[i], Len(dr)) + 1]
                                           * harmonic_forces[i])]
                  IN [err |-> "none", harmonic_forces |-> harmonic_forces,
                      harmonic_energy_pot |-> SumSeq(terms)]

\* The array self._forces after lines 232-233, and the locals computed on the way.
\* forces0 is the array before the step.  The first assignment (line 232) is done
\* before _calc_harmonic is called, the second (line 233) after it.
AssignForces(forces0, inp, ids, job, eng) ==
  LET base == _calc_static_base_job(inp, ids, job, eng)
      set1 == SetItem(forces0, ids.v, base.forces)
      harm == _calc_harmonic(inp)
      set2 == SetItem(set1.val, inp.oscillators_id_list.elems, harm.harmonic_forces)
      locals == [base_forces |-> base.forces, base_energy_pot |-> base.energy_pot,
                 harmonic_forces |-> harm.harmonic_forces,
                 harmonic_energy_pot |-> harm.harmonic_energy_pot]
  IN IF base.err # "none" THEN [err |-> base.err, forces |-> forces0, locals |-> NoStep]
     ELSE IF set1.err # "none" THEN [err |-> set1.err, forces |-> forces0, locals |-> NoStep]
     ELSE IF harm.err # "none" THEN [err |-> harm.err, forces |-> set1.val, locals |-> NoStep]
     ELSE IF set2.err # "none" THEN [err |-> set2.err, forces |-> set1.val, locals |-> NoStep]
     ELSE [err |-> "none", forces |-> set2.val, locals |-> locals]

\* lines 234-241 with the harmonic energy subtracted from the base energy on line 234
AppendStep_subtract(cache, forces_id, forces, inp, ids, locals) ==
  LET energy_pot == locals.base_energy_pot - locals.harmonic_energy_pot
      c1 == [cache EXCEPT !.forces = Append(@, forces_id),
                          !.energy_pot = Append(@, energy_pot)]
  IN IF inp.save_debug_data
       THEN [c1 EXCEPT
               !.base_forces = Append(@, GetItem(forces, ids.v).val),
               !.base_energy_pot = Append(@, locals.base_energy_pot),
               !.harmonic_forces =
                   Append(@, GetItem(forces, inp.oscillators_id_list.elems).val),
               !.harmonic_energy_pot = Append(@, locals.harmonic_energy_pot)]
     ELSE c1

\* lines 234-241: the cache after a step.  "forces" gets the array itself (its identity),
\* the debug entries get copies (the result of fancy indexing)
AppendStep(cache, forces_id, forces, inp, ids, locals) ==
  LET energy_pot == locals.base_energy_pot + locals.harmonic_energy_pot
      c1 == [cache EXCEPT !.forces = Append(@, forces_id),
                          !.energy_pot = Append(@, energy_pot)]
  IN IF inp.save_debug_data
       THEN [c1 EXCEPT
               !.base_forces = Append(@, GetItem(forces, ids.v).val),
               !.base_energy_pot = Append(@, locals.base_energy_pot),
               !.harmonic_forces =
                   Append(@, GetItem(forces, inp.oscillators_id_list.elems).val),
               !.harmonic_energy_pot = Append(@, locals.harmonic_energy_pot)]
     ELSE c1

\* the forces history as values: record i is the array that cache["forces"][i] refers to
HistoryForces == [i \in 1..Len(interactive_cache.forces) |-> arrays[interactive_cache.forces[i]]]
HistoryEnergy == interactive_cache.energy_pot

\* ---------------------------------------------------------------- operations

\* a positions setter that stores the value as the structure as well
set_positions_and_structure(inp, p) ==
  IF p.isNone THEN inp ELSE [inp EXCEPT !.positions = p, !.structure = p]

\* the positions setter (lines 103-105), called by the user before the job is opened
\* or stepped; p = None stands for "not called"
set_positions(inp, p) == IF p.isNone THEN inp ELSE [inp EXCEPT !.positions = p]

PositionChoices == {None} \cup {Some(p) : p \in PositionInputs}

\* DecoupledOscillators.validate_ready_to_run
validate_ready_to_run ==
  \E p \in PositionChoices :
  LET chk == _check_inputs(server_run_mode, set_positions(input, p), _base_structure)
      sbs == _set_base_structure(chk.input, chk._base_structure, _base_atom_ids)
      cbj == _create_base_job(chk.input, sbs._base_structure, base_job)
      err == IF chk.err # "none" THEN chk.err
             ELSE IF sbs.err # "none" THEN sbs.err ELSE cbj.err
  IN /\ base_job.opened < MaxOpens
     /\ input' = chk.input
     /\ _base_structure' = IF chk.err # "none" THEN chk._base_structure
                           ELSE sbs._base_structure
     /\ _base_atom_ids' = IF chk.err # "none" THEN _base_atom_ids ELSE sbs._base_atom_ids
     /\ base_job' = IF chk.err # "none" \/ sbs.err # "none" THEN base_job ELSE cbj.base_job
     /\ IF err = "none"
          THEN /\ arrays' = Append(arrays, [a \in 1..Len(chk.input.positions.v) |-> 0])
               /\ _forces' = Len(arrays) + 1
          ELSE UNCHANGED <<arrays, _forces>>
     /\ last_call' = [op |-> "validate_ready_to_run", err |-> err]
     /\ reloaded' = None
     /\ last_step' = NoStep
     /\ UNCHANGED <<server_run_mode, interactive_cache, output, hdf>>
     /\ UNCHANGED <<fe_vars, mlip_vars>>

\* DecoupledOscillators.run_if_interactive
run_if_interactive ==
  \E p \in PositionChoices, eng \in EngineOutcomes :
    LET inp == set_positions(input, p)
        forces0 == IF _forces = 0 THEN <<>> ELSE arrays[_forces]
        res == IF base_job.exists /\ _forces = 0
                 THEN [err |-> "TypeError", forces |-> forces0, locals |-> NoStep]
               ELSE AssignForces(forces0, inp, _base_atom_ids, base_job, eng)
    IN /\ Len(interactive_cache.energy_pot) < MaxSteps
       /\ arrays' = IF _forces = 0 THEN arrays ELSE [arrays EXCEPT ![_forces] = res.forces]
       /\ IF res.err = "none"
            THEN /\ interactive_cache' = AppendStep(interactive_cache, _forces, res.forces,
                                                    inp, _base_atom_ids, res.locals)
                 /\ last_step' = res.locals
            ELSE /\ last_step' = NoStep
                 /\ UNCHANGED interactive_cache
       /\ last_call' = [op |-> "run_if_interactive", err |-> res.err]
       /\ reloaded' = None
       /\ input' = inp
       /\ UNCHANGED <<server_run_mode, _base_structure, _base_atom_ids, _forces, output,
                      base_job, hdf>>
       /\ UNCHANGED <<fe_vars, mlip_vars>>

\* reading an attribute of the DataContainer self.output: a field that has not been
\* assigned (None in the model) is a missing key
GetAttr(field) ==
  IF field.isNone THEN [err |-> "AttributeError", val |-> <<>>]
  ELSE [err |-> "none", val |-> field.v]

\* DecoupledOscillators.interactive_forces_getter / interactive_energy_pot_getter: what
\* a caller gets from a job whose output is out
interactive_forces_getter(out) == GetAttr(out.forces)
interactive_energy_pot_getter(out) == GetAttr(out.energy_pot)

\* interactive_close extending the output of the previous close instead of replacing it
OutputAtClose_extend(out, cache, forces_history, inp) ==
  LET before(x) == IF x.isNone THEN <<>> ELSE x.v
  IN [out EXCEPT !.forces = Some(before(out.forces) \o forces_history),
                 !.energy_pot = Some(before(out.energy_pot) \o cache.energy_pot)]

\* np.array(self.interactive_cache[...]): a copy of the values
OutputAtClose(out, cache, forces_history, inp) ==
  LET o1 == [out EXCEPT !.forces = Some(forces_history),
                        !.energy_pot = Some(cache.energy_pot)]
  IN IF inp.save_debug_data
       THEN [o1 EXCEPT !.base_forces = Some(cache.base_forces),
                       !.base_energy_pot = Some(cache.base_energy_pot),
                       !.harmonic_forces = Some(cache.harmonic_forces),
                       !.harmonic_energy_pot = Some(cache.harmonic_energy_pot)]
     ELSE o1

\* DecoupledOscillators.to_hdf: input and output as they are when it is called
to_hdf(store, inp, out) == [input |-> Some(inp), output |-> Some(out)]

\* DecoupledOscillators.interactive_close.  The base engine's interactive_close is
\* guarded by interactive_is_activated(): on a closed session it does nothing.
interactive_close ==
  /\ base_job.closed < MaxCloses
  /\ reloaded' = None
  /\ last_step' = NoStep
  /\ UNCHANGED <<fe_vars, mlip_vars>>
  /\ IF ~base_job.exists
       THEN /\ last_call' = [op |-> "interactive_close", err |-> "AttributeError"]
            /\ UNCHANGED <<server_run_mode, input, _base_structure, _base_atom_ids,
                           _forces, arrays, interactive_cache, output, base_job, hdf>>
       ELSE /\ base_job' = [base_job EXCEPT !.sessions_open = 0, !.closed = @ + 1]
            /\ hdf' = to_hdf(hdf, input, output)
            /\ output' = OutputAtClose(output, interactive_cache, HistoryForces, input)
            /\ last_call' = [op |-> "interactive_close", err |-> "none"]
            /\ UNCHANGED <<server_run_mode, input, _base_structure, _base_atom_ids,
                           _forces, arrays, interactive_cache>>

\* DecoupledOscillators.from_hdf on a job object inp/out: the key _ref_job exists in the
\* input of every constructed job (line 37), so reading input.ref_job raises no
\* AttributeError and only the output is read from the store
from_hdf(store, inp, out) == [input |-> inp, output |-> store.output.v]

\* the job is loaded from the store: a new object is constructed and from_hdf is called
Reload ==
  /\ ~hdf.output.isNone
  /\ reloaded' = Some(from_hdf(hdf, NewInput, NewOutput))
  /\ last_call' = [op |-> "from_hdf", err |-> "none"]
  /\ last_step' = NoStep
  /\ UNCHANGED <<server_run_mode, input, _base_structure, _base_atom_ids, _forces, arrays,
                 interactive_cache, output, base_job, hdf>>
  /\ UNCHANGED <<fe_vars, mlip_vars>>

InitDO ==
  /\ server_run_mode \in {"interactive", "modal"}
  /\ \E structure \in {None, Some(ReferencePositions)},
        ref_job \in {Some(ReferencePositions)},
        osc \in OscillatorInputs, k \in SpringInputs, debug \in BOOLEAN :
       input = [structure |-> structure, positions |-> None,
                oscillators_id_list |-> osc, spring_constants_list |-> k,
                save_debug_data |-> debug, ref_job |-> ref_job]
  /\ _base_structure = None
  /\ _base_atom_ids = None
  /\ _forces = 0
  /\ arrays = <<>>
  /\ interactive_cache = NewCache
  /\ output = NewOutput
  /\ base_job = NoBaseJob
  /\ hdf = [input |-> None, output |-> None]
  /\ reloaded = None
  /\ last_step = NoStep
  /\ last_call = [op |-> "__init__", err |-> "none"]


\* ==================================================================== FreeEnergy
md_sampling_steps == 10
md_thermalization_steps == 100

JobNames ==
  {"npt_job", "min_npt_job", "phonon_ref_job", "phonopy_job", "ref_job_a", "ref_job_b",
   "tild_job"}

\* how a sub-job's run() ends: with status finished, with status warning (its output is
\* there), or aborted, and then run() raises
JobOutcomes == {"finished", "warning", "aborted"}
HasOutput(job_status) == job_status \in {"finished", "warning"}

\* What the sub-jobs and the closed formulas of a job give for its structure: the number
\* of atoms of the minimized structure, the harmonic reference of its branch, the
\* minimized energy, the TILD mean and standard error, the two corrections.  Energies are
\* counted in a unit in which they are multiples of 6, so that the division by n_atoms of
\* line 293 is exact for the structures of StructureSizes.
StructureSizes == {1, 2, 3}
ResultEnergies == {-6, 12}
ResultErrors == {0, 6}
ResultChoices ==
  [n_atoms : StructureSizes, fe_harm : ResultEnergies, minimized_energy : ResultEnergies,
   tild_free_energy_mean : ResultEnergies, tild_free_energy_se : ResultErrors,
   fe_A_to_G_correction : {-6}, fe_com : {6}]
UnitResults ==
  [n_atoms |-> 1, fe_harm |-> 0, minimized_energy |-> 0, tild_free_energy_mean |-> 0,
   tild_free_energy_se |-> 0, fe_A_to_G_correction |-> 0, fe_com |-> 0]

\* FreeEnergy.__init__; output holds the names of the fields that are set
NewFreeEnergy(spring_constant) ==
  [spring_constant |-> spring_constant,
   _mass |-> None, _n_atoms |-> None, _thermalize_snapshots |-> None,
   _npt_job |-> None, _minimized_structure |-> None, _del_harm_to_eam |-> None,
   _phonopy_job |-> None, _tild_job |-> None,
   output |-> {},
   jobs |-> [j \in JobNames |-> "none"],  \* the sub-jobs of the project and their status
   cleaned |-> {},      \* the sub-jobs whose files _cleanup_job has removed
   fit_from |-> None,   \* the first snapshot of the volumes fitted by get_A_to_G_correction
   force_constants |-> None,  \* what ref_job_a.set_force_constants was given (line 231)
   fe_ref |-> None,     \* the harmonic free energy that went into output.fe_G_per_atom
   results |-> UnitResults,  \* what the stages of this job compute for its structure
   G |-> None,          \* the values of output.fe_G_per_atom and output.fe_G_per_atom_se
   status |-> "initialized",  \* the job status kept by GenericJob; no line of FreeEnergy sets it
   stored |-> None]     \* the output fields held by project_hdf5

Ok(s) == [s |-> s, err |-> "none"]
Fail(s, err) == [s |-> s, err |-> err]

\* <folder>.create.job.<Type>(name): the job object; a job of that name that is in the
\* project already is loaded with the status it has
CreateJob(s, name) ==
  IF s.jobs[name] = "none" THEN [s EXCEPT !.jobs[name] = "created"] ELSE s

\* <job>.run(): a job that has been run is not run again
RunJob(s, name, outcome) ==
  IF s.jobs[name] \in {"none", "created"} THEN [s EXCEPT !.jobs[name] = outcome] ELSE s

\* the status of the sub-job that the handle (self._npt_job, ...) refers to
StatusOf(s, handle) == s.jobs[handle.v]

\* FreeEnergy._cleanup_job: remove() / rmtree() raise when a file cannot be removed
_cleanup_job(s, job_name, removable) ==
  IF removable THEN Ok([s EXCEPT !.cleaned = @ \cup {job_name}]) ELSE Fail(s, "OSError")

\* FreeEnergy.run_npt_md
run_npt_md(s, outcome) ==
  LET s1 == RunJob(CreateJob(s, "npt_job"), "npt_job", outcome)
  IN IF s1.jobs["npt_job"] = "aborted" THEN Fail(s1, "RuntimeError")
     ELSE Ok([s1 EXCEPT !._npt_job = Some("npt_job")])

\* FreeEnergy.get_npt_md_structure
get_npt_md_structure(s, removable, outcome) ==
  IF s._npt_job.isNone THEN Fail(s, "ValueError")
  ELSE IF StatusOf(s, s._npt_job) # "finished" THEN Fail(s, "ValueError")
  ELSE LET c1 == _cleanup_job(s, "npt_job", removable)
           s2 == [c1.s EXCEPT !._thermalize_snapshots =
                                  Some(md_thermalization_steps \div md_sampling_steps)]
           s3 == RunJob(CreateJob(s2, "min_npt_job"), "min_npt_job", outcome)
           s4 == [s3 EXCEPT !.output = @ \cup {"minimized_energy"}]
           c2 == _cleanup_job(s4, "min_npt_job", removable)
       IN IF c1.err # "none" THEN c1
          ELSE IF s3.jobs["min_npt_job"] = "aborted" THEN Fail(s3, "RuntimeError")
          ELSE IF c2.err # "none" THEN c2
          ELSE Ok([c2.s EXCEPT !.output = @ \cup {"minimized_structure"},
                               !._minimized_structure = Some("minimized")])

\* FreeEnergy.get_A_to_G_correction
get_A_to_G_correction(s) ==
  IF s._npt_job.isNone THEN Fail(s, "ValueError")
  ELSE IF ~HasOutput(StatusOf(s, s._npt_job)) THEN Fail(s, "TypeError")
  ELSE Ok([s EXCEPT !.fit_from = Some(IF s._thermalize_snapshots.isNone THEN 0
                                      ELSE s._thermalize_snapshots.v),
                    !.output = @ \cup {"fe_A_to_G_correction"}])

\* FreeEnergy.get_center_of_mass_correction
get_center_of_mass_correction(s) ==
  IF "minimized_structure" \notin s.output THEN Fail(s, "AttributeError")
  ELSE Ok([s EXCEPT !._mass = Some("mass"), !._n_atoms = Some("n_atoms"),
                    !.output = @ \cup {"fe_com"}])

\* FreeEnergy.run_phonopy
run_phonopy(s, outcome) ==
  IF s._minimized_structure.isNone THEN Fail(s, "ValueError")
  ELSE LET s1 == RunJob(CreateJob(CreateJob(s, "phonon_ref_job"), "phonopy_job"),
                        "phonopy_job", outcome)
       IN IF s1.jobs["phonopy_job"] = "aborted" THEN Fail(s1, "RuntimeError")
          ELSE Ok([s1 EXCEPT !._phonopy_job = Some("phonopy_job")])

\* FreeEnergy.get_phonopy_output
get_phonopy_output(s, removable) ==
  IF s._phonopy_job.isNone THEN Fail(s, "ValueError")
  ELSE IF StatusOf(s, s._phonopy_job) # "finished" THEN Fail(s, "ValueError")
  ELSE LET c1 == _cleanup_job(s, "phonopy_job", removable)
       IN IF c1.err # "none" THEN c1
          ELSE Ok([c1.s EXCEPT !.output = @ \cup {"fe_quantum_harm", "force_constants"}])

\* get_classical_harmonic_free_energy if the division and product of lines 214-215 accepted None
get_classical_harmonic_free_energy_lenient(s) ==
  Ok([s EXCEPT !.output = @ \cup {"fe_classical_harm"}])

\* FreeEnergy.get_classical_harmonic_free_energy
get_classical_harmonic_free_energy(s) ==
  IF s.spring_constant.isNone \/ s._mass.isNone \/ s._n_atoms.isNone
    THEN Fail(s, "TypeError")
  ELSE Ok([s EXCEPT !.output = @ \cup {"fe_classical_harm"}])

\* FreeEnergy.run_harmonic_to_eam_tild
run_harmonic_to_eam_tild(s, outcome) ==
  IF s.spring_constant.isNone /\ "force_constants" \notin s.output
    THEN Fail(s, "AttributeError")
  ELSE LET force_constants == IF ~s.spring_constant.isNone THEN "spring_constant"
                                ELSE "output.force_constants"
           s1 == CreateJob(s, "ref_job_a")
           s2 == CreateJob(CreateJob([s1 EXCEPT !.force_constants = Some(force_constants)],
                                     "ref_job_b"), "tild_job")
           s3 == RunJob(s2, "tild_job", outcome)
       IN IF s._minimized_structure.isNone THEN Fail(s1, "AttributeError")
          ELSE IF "minimized_energy" \notin s.output THEN Fail(s2, "AttributeError")
          ELSE IF s3.jobs["tild_job"] = "aborted" THEN Fail(s3, "RuntimeError")
          ELSE Ok([s3 EXCEPT !._tild_job = Some("tild_job")])

\* get_tild_output without the status check of lines 265-266
get_tild_output_unchecked(s, removable) ==
  IF s._tild_job.isNone THEN Fail(s, "ValueError")
  ELSE LET c1 == _cleanup_job(s, "tild_job", removable)
       IN IF c1.err # "none" THEN c1
          ELSE Ok([c1.s EXCEPT
                     !.output = @ \cup {"fe_del_harm_to_eam", "fe_del_harm_to_eam_se"},
                     !._del_harm_to_eam = Some("fe_del_harm_to_eam")])

\* FreeEnergy.get_tild_output
get_tild_output(s, removable) ==
  IF s._tild_job.isNone THEN Fail(s, "ValueError")
  ELSE IF StatusOf(s, s._tild_job) # "finished" THEN Fail(s, "ValueError")
  ELSE LET c1 == _cleanup_job(s, "tild_job", removable)
       IN IF c1.err # "none" THEN c1
          ELSE Ok([c1.s EXCEPT
                     !.output = @ \cup {"fe_del_harm_to_eam", "fe_del_harm_to_eam_se"},
                     !._del_harm_to_eam = Some("fe_del_harm_to_eam")])

\* nominal_values and std_devs of the sum of lines 291-292: fe_del_harm_to_eam is the one
\* term with an uncertainty, so the standard deviation of the sum is its standard error
anharm_fe_nominal(res) ==
  res.fe_harm + res.minimized_energy + res.tild_free_energy_mean
    + res.fe_A_to_G_correction + res.fe_com
anharm_fe_std_dev(res) == res.tild_free_energy_se

\* lines 293-295: the values assigned to output.fe_G_per_atom and output.fe_G_per_atom_se
GPerAtom(res) ==
  [fe_G_per_atom |-> anharm_fe_nominal(res) \div res.n_atoms,
   fe_G_per_atom_se |-> anharm_fe_std_dev(res)]

\* FreeEnergy.get_G_per_atom
get_G_per_atom(s) ==
  LET fe_ref == IF s.spring_constant.isNone THEN "fe_quantum_harm" ELSE "fe_classical_harm"
  IN IF fe_ref \notin s.output THEN Fail(s, "AttributeError")
     ELSE IF s._del_harm_to_eam.isNone THEN Fail(s, "ValueError")
     ELSE IF ~({"minimized_energy", "fe_A_to_G_correction", "fe_com"} \subseteq s.output)
       THEN Fail(s, "AttributeError")
     ELSE IF s._n_atoms.isNone THEN Fail(s, "TypeError")
     ELSE Ok([s EXCEPT !.output = @ \cup {"fe_G_per_atom", "fe_G_per_atom_se"},
                       !.fe_ref = Some(fe_ref),
                       !.G = Some(GPerAtom(s.results))])

\* FreeEnergy.to_hdf
fe_to_hdf(s) == Ok([s EXCEPT !.stored = Some(s.output)])

\* FreeEnergy.from_hdf on a newly constructed job: input and output are read back, the
\* internal fields are those of __init__
fe_from_hdf(s) ==
  IF s.stored.isNone THEN Fail(s, "ValueError")
  ELSE Ok([NewFreeEnergy(s.spring_constant) EXCEPT
             !.output = s.stored.v, !.stored = s.stored,
             !.jobs = s.jobs, !.cleaned = s.cleaned, !.status = s.status,
             !.force_constants = s.force_constants, !.results = s.results,
             !.fe_ref = IF "fe_G_per_atom" \in s.stored.v THEN s.fe_ref ELSE None,
             !.G = IF "fe_G_per_atom" \in s.stored.v THEN s.G ELSE None])

\* run_static with the test of line 305 lost: both harmonic references are computed
StagesOf_both(s) ==
  <<"run_npt_md", "get_npt_md_structure", "get_A_to_G_correction",
    "get_center_of_mass_correction">>
  \o (IF ~s.spring_constant.isNone
        THEN <<"get_classical_harmonic_free_energy", "run_phonopy", "get_phonopy_output">>
      ELSE <<"run_phonopy", "get_phonopy_output">>)
  \o <<"run_harmonic_to_eam_tild", "get_tild_output", "get_G_per_atom", "to_hdf">>

\* the calls of FreeEnergy.run_static, in their order (lines 301-312)
StagesOf(s) ==
  <<"run_npt_md", "get_npt_md_structure", "get_A_to_G_correction",
    "get_center_of_mass_correction">>
  \o (IF ~s.spring_constant.isNone THEN <<"get_classical_harmonic_free_energy">>
      ELSE <<"run_phonopy", "get_phonopy_output">>)
  \o <<"run_harmonic_to_eam_tild", "get_tild_output", "get_G_per_atom", "to_hdf">>

\* one call of run_static, the sub-jobs ending as ext says
Stage(name, s, ext) ==
  CASE name = "run_npt_md" -> run_npt_md(s, ext.npt)
    [] name = "get_npt_md_structure" -> get_npt_md_structure(s, ext.removable, ext.min)
    [] name = "get_A_to_G_correction" -> get_A_to_G_correction(s)
    [] name = "get_center_of_mass_correction" -> get_center_of_mass_correction(s)
    [] name = "get_classical_harmonic_free_energy" -> get_classical_harmonic_free_energy(s)
    [] name = "run_phonopy" -> run_phonopy(s, ext.phonopy)
    [] name = "get_phonopy_output" -> get_phonopy_output(s, ext.removable)
    [] name = "run_harmonic_to_eam_tild" -> run_harmonic_to_eam_tild(s, ext.tild)
    [] name = "get_tild_output" -> get_tild_output(s, ext.removable)
    [] name = "get_G_per_atom" -> get_G_per_atom(s)
    [] name = "to_hdf" -> fe_to_hdf(s)

\* the calls stages one after the other; an exception ends the run
RECURSIVE RunStages(_, _, _)
RunStages(stages, s, ext) ==
  IF stages = <<>> THEN Ok(s)
  ELSE LET r == Stage(Head(stages), s, ext)
       IN IF r.err # "none" THEN r ELSE RunStages(Tail(stages), r.s, ext)

\* FreeEnergy.run_static
run_static(s, ext) == RunStages(StagesOf(s), s, ext)

\* FreeEnergy.run(), inherited from GenericJob: the status is "running" when run_static is
\* called, and run_static assigns none; when run_static raises, the exception goes on to
\* the caller and the framework leaves the status or drops it to "aborted"
StatusOnError == {"running", "aborted"}
run(s, ext) ==
  LET r == run_static([s EXCEPT !.status = "running"], ext)
  IN IF r.err = "none" THEN r ELSE Fail([r.s EXCEPT !.status = ext.status], r.err)

\* the ways in which the run of sub-job name can end: as it did, if it has been run
OutcomesOf(s, name) ==
  IF s.jobs[name] \in {"none", "created"} THEN JobOutcomes ELSE {s.jobs[name]}

FeCall(op, r) ==
  /\ fe' = r.s
  /\ fe_call' = [op |-> op, err |-> r.err]
  /\ UNCHANGED <<do_vars, mlip_vars>>

FeRunNptMd ==
  \E o \in OutcomesOf(fe, "npt_job") : FeCall("run_npt_md", run_npt_md(fe, o))
FeGetNptMdStructure ==
  \E c \in BOOLEAN, o \in OutcomesOf(fe, "min_npt_job") :
    FeCall("get_npt_md_structure", get_npt_md_structure(fe, c, o))
FeGetAToGCorrection ==
  \E r \in {get_A_to_G_correction(fe)} : FeCall("get_A_to_G_correction", r)
FeGetCenterOfMassCorrection ==
  \E r \in {get_center_of_mass_correction(fe)} : FeCall("get_center_of_mass_correction", r)
FeRunPhonopy ==
  \E o \in OutcomesOf(fe, "phonopy_job") : FeCall("run_phonopy", run_phonopy(fe, o))
FeGetPhonopyOutput ==
  \E r \in {get_phonopy_output(fe, c) : c \in BOOLEAN} : FeCall("get_phonopy_output", r)
FeGetClassicalHarmonicFreeEnergy ==
  \E r \in {get_classical_harmonic_free_energy(fe)} :
    FeCall("get_classical_harmonic_free_energy", r)
FeRunHarmonicToEamTild ==
  \E o \in OutcomesOf(fe, "tild_job") :
    FeCall("run_harmonic_to_eam_tild", run_harmonic_to_eam_tild(fe, o))
FeGetTildOutput ==
  \E r \in {get_tild_output(fe, c) : c \in BOOLEAN} : FeCall("get_tild_output", r)
FeGetGPerAtom ==
  \E r \in {get_G_per_atom(fe)} : FeCall("get_G_per_atom", r)
FeRunStatic ==
  \E npt \in OutcomesOf(fe, "npt_job"), min \in OutcomesOf(fe, "min_npt_job"),
     phonopy \in OutcomesOf(fe, "phonopy_job"), tild \in OutcomesOf(fe, "tild_job"),
     removable \in BOOLEAN :
    FeCall("run_static",
           run_static(fe, [npt |-> npt, min |-> min, phonopy |-> phonopy, tild |-> tild,
                           removable |-> removable]))
FeRun ==
  \E npt \in OutcomesOf(fe, "npt_job"), min \in OutcomesOf(fe, "min_npt_job"),
     phonopy \in OutcomesOf(fe, "phonopy_job"), tild \in OutcomesOf(fe, "tild_job"),
     removable \in BOOLEAN, status \in StatusOnError :
    FeCall("run",
           run(fe, [npt |-> npt, min |-> min, phonopy |-> phonopy, tild |-> tild,
                    removable |-> removable, status |-> status]))
FeToHdf ==
  \E r \in {fe_to_hdf(fe)} : FeCall("to_hdf", r)
FeFromHdf ==
  \E r \in {fe_from_hdf(fe)} : FeCall("from_hdf", r)

InitFE ==
  /\ fe \in {NewFreeEnergy(k) : k \in {None, Some("spring_constant")}}
  /\ fe_call = [op |-> "__init__", err |-> "none"]

\* ================================================================ MlipDescriptors
\* the jobs saved in the project have the ids 1 .. MaxJobId
MaxJobId == 3
ProjectJobs == {[id |-> Some(i), job_name |-> <<"job", i>>] : i \in 1..MaxJobId}
\* a job that has not been saved has no id yet
UnsavedJobs == {[id |-> None, job_name |-> <<"job", 0>>]}

\* MlipDescriptors.__init__ (line 40)
NewMlipInput == [potential_job_id |-> None, structure_container_id |-> None]

\* self.project.load(job_specifier): the saved job of that id; what load does with an id
\* that is None is the framework's affair: it returns None or it raises
load(job_specifier) ==
  IF job_specifier.isNone THEN {[raises |-> FALSE, job |-> None], [raises |-> TRUE, job |-> None]}
  ELSE {[raises |-> FALSE, job |-> Some(j)] : j \in {j \in ProjectJobs : j.id = job_specifier}}

\* the four functions of lines 43-64, by the name of the field of self.input they use
potential_getter == "potential_job_id"            \* def potential(self), line 44
potential_setter == "potential_job_id"            \* def potential(self, job), line 51
structures_getter == "structure_container_id"     \* def structures(self), line 55
structures_setter == "structure_container_id"     \* def structures(self, job), line 63

\* property(fget) and <property>.setter(fset): a copy of the property with fset replaced
property(fget) == [fget |-> fget, fset |-> "none"]
setter(prop, fset) == [prop EXCEPT !.fset = fset]

\* the class attributes after the class body has run: each def binds its name to what its
\* decorator returns, and line 62 is @potential.setter
MlipClass ==
  LET potential_43 == property(potential_getter)
      potential_50 == setter(potential_43, potential_setter)
      structures_54 == property(structures_getter)
      structures_62 == setter(potential_50, structures_setter)
  IN [potential |-> potential_50, structures |-> structures_62]

\* attribute access on the job: the property's fget reads a field of self.input and loads
\* the job of that id, the property's fset stores job.id in a field of self.input
Fget(attr, inp) == load(inp[MlipClass[attr].fget])
Fset(attr, inp, job) == [inp EXCEPT ![MlipClass[attr].fset] = job.id]
\* the assignments a caller can make to attr: the job given and self.input after it
Assignments(attr, inp) ==
  {[job |-> job, input |-> Fset(attr, inp, job)] : job \in ProjectJobs \cup UnsavedJobs}

MlipCall(call, inp, assigned) ==
  /\ mlip_call' = call
  /\ mlip_input' = inp
  /\ mlip_assigned' = assigned
  /\ UNCHANGED <<do_vars, fe_vars>>

\* job.potential
GetPotential ==
  \E r \in Fget("potential", mlip_input) :
    MlipCall([op |-> "get", attr |-> "potential", raises |-> r.raises, job |-> r.job],
             mlip_input, mlip_assigned)
\* job.structures
GetStructures ==
  \E r \in Fget("structures", mlip_input) :
    MlipCall([op |-> "get", attr |-> "structures", raises |-> r.raises, job |-> r.job],
             mlip_input, mlip_assigned)
\* job.potential = job
SetPotential ==
  \E a \in Assignments("potential", mlip_input) :
    MlipCall([op |-> "set", attr |-> "potential", raises |-> FALSE, job |-> Some(a.job)],
             a.input, [mlip_assigned EXCEPT !.potential = Some(a.job)])
\* job.structures = job
SetStructures ==
  \E a \in Assignments("structures", mlip_input) :
    MlipCall([op |-> "set", attr |-> "structures", raises |-> FALSE, job |-> Some(a.job)],
             a.input, [mlip_assigned EXCEPT !.structures = Some(a.job)])

InitMlip ==
  /\ mlip_input = NewMlipInput
  /\ mlip_assigned = [potential |-> None, structures |-> None]
  /\ mlip_call = [op |-> "__init__", attr |-> "none", raises |-> FALSE, job |-> None]

\* ================================================================ specifications
vars == <<do_vars, fe_vars, mlip_vars>>

\* a DecoupledOscillators job is driven; no FreeEnergy job is touched
Init ==
  /\ InitDO
  /\ fe = NewFreeEnergy(None) /\ fe_call = [op |-> "__init__", err |-> "none"]
  /\ InitMlip
Next ==
  \/ validate_ready_to_run
  \/ run_if_interactive
  \/ interactive_close
  \/ Reload
Spec == Init /\ [][Next]_vars

\* a DecoupledOscillators job on a chain of one or two atoms, each atom displaced from its
\* reference by 0, 0.2 or 1.0 Angstrom (less than half the cell: no periodic wrapping),
\* with at most one oscillator of spring constant 2 or 5
SmallStructures == {[a \in 1..n |-> 10 * (a - 1)] : n \in 1..2}
SmallDisplacements == {0, 2, 10}
SmallOscillators == {PyList("int", s) : s \in SeqsUpTo({0, 1}, 1)}
SmallSprings == {PyList("float", s) : s \in SeqsUpTo({2, 5}, 1)}
InitSmall ==
  /\ server_run_mode = "interactive"
  /\ \E structure \in SmallStructures, osc \in SmallOscillators, k \in SmallSprings,
        debug \in BOOLEAN :
       \E d \in [DOMAIN structure -> SmallDisplacements] :
         input = [structure |-> Some(structure),
                  positions |-> Some([a \in DOMAIN structure |-> structure[a] + d[a]]),
                  oscillators_id_list |-> osc, spring_constants_list |-> k,
                  save_debug_data |-> debug, ref_job |-> Some(structure)]
  /\ _base_structure = None
  /\ _base_atom_ids = None
  /\ _forces = 0
  /\ arrays = <<>>
  /\ interactive_cache = NewCache
  /\ output = NewOutput
  /\ base_job = NoBaseJob
  /\ hdf = [input |-> None, output |-> None]
  /\ reloaded = None
  /\ last_step = NoStep
  /\ last_call = [op |-> "__init__", err |-> "none"]
  /\ fe = NewFreeEnergy(None)
  /\ fe_call = [op |-> "__init__", err |-> "none"]
  /\ InitMlip
SpecSmall == InitSmall /\ [][Next]_vars

\* a FreeEnergy job is driven; no DecoupledOscillators job is touched
IdleDO ==
  /\ server_run_mode = "interactive"
  /\ input = NewInput
  /\ _base_structure = None
  /\ _base_atom_ids = None
  /\ _forces = 0
  /\ arrays = <<>>
  /\ interactive_cache = NewCache
  /\ output = NewOutput
  /\ base_job = NoBaseJob
  /\ hdf = [input |-> None, output |-> None]
  /\ reloaded = None
  /\ last_step = NoStep
  /\ last_call = [op |-> "__init__", err |-> "none"]

InitSpecFE == InitFE /\ IdleDO /\ InitMlip
NextSpecFE ==
  \/ FeRunNptMd
  \/ FeGetNptMdStructure
  \/ FeGetAToGCorrection
  \/ FeGetCenterOfMassCorrection
  \/ FeRunPhonopy
  \/ FeGetPhonopyOutput
  \/ FeGetClassicalHarmonicFreeEnergy
  \/ FeRunHarmonicToEamTild
  \/ FeGetTildOutput
  \/ FeGetGPerAtom
  \/ FeRunStatic
  \/ FeToHdf
  \/ FeFromHdf
SpecFE == InitSpecFE /\ [][NextSpecFE]_vars

\* a MlipDescriptors job whose attributes potential and structures are set and read
IdleFE == fe = NewFreeEnergy(None) /\ fe_call = [op |-> "__init__", err |-> "none"]
NextSpecMlip ==
  \/ GetPotential
  \/ GetStructures
  \/ SetPotential
  \/ SetStructures
InitSpecMlip == InitMlip /\ IdleDO /\ IdleFE
SpecMlip == InitSpecMlip /\ [][NextSpecMlip]_vars

\* a FreeEnergy job is run through run(), saved and loaded again
NextSpecRun ==
  \/ FeRun
  \/ FeToHdf
  \/ FeFromHdf
SpecRun == InitSpecFE /\ [][NextSpecRun]_vars

\* FreeEnergy jobs on structures of one to three atoms, with the results of their stages,
\* are run and combined
InitSpecCombine ==
  /\ fe \in {[NewFreeEnergy(k) EXCEPT !.results = r] :
              k \in {None, Some("spring_constant")}, r \in ResultChoices}
  /\ fe_call = [op |-> "__init__", err |-> "none"]
  /\ IdleDO
  /\ InitMlip
NextSpecCombine ==
  \/ FeRunStatic
  \/ FeGetGPerAtom
SpecCombine == InitSpecCombine /\ [][NextSpecCombine]_vars

\* ========================================================================= claims

\* the oscillator ids and the base atom ids cover 0 .. n_atoms-1 exactly once: the ids of
\* oscillators_id_list are integers of 0 .. n_atoms-1 and no id is given twice
ExactPartition ==
  LET osc == input.oscillators_id_list
      n == Len(input.ref_job.v)
  IN /\ osc.type = "list"
     /\ osc.elems # <<>> => osc.etype = "int"
     /\ \A i \in 1..Len(osc.elems) : 0 <= osc.elems[i] /\ osc.elems[i] < n
     /\ \A i, j \in 1..Len(osc.elems) : osc.elems[i] = osc.elems[j] => i = j

StepSucceeded == last_call = [op |-> "run_if_interactive", err |-> "none"]

\* the record that the last step appended
LastRecordForces == HistoryForces[Len(interactive_cache.forces)]
LastRecordEnergy == HistoryEnergy[Len(interactive_cache.energy_pot)]

\* C1: after a successful run_if_interactive the record appended to the history is
\* additive: its energy_pot is base_energy_pot + harmonic_energy_pot of the step, its
\* forces at the base atom ids are the forces the base engine returned and its forces at
\* the oscillator ids are the harmonic forces of the step.
C1_StepRecordAdditive ==
  StepSucceeded =>
    /\ LastRecordEnergy = last_step.base_energy_pot + last_step.harmonic_energy_pot
    /\ GetItem(LastRecordForces, _base_atom_ids.v).val = last_step.base_forces
    /\ GetItem(LastRecordForces, input.oscillators_id_list.elems).val
         = last_step.harmonic_forces

\* C1 on the configurations whose ids are an exact partition of the atoms
C1_AdditiveOnExactPartition == ExactPartition => C1_StepRecordAdditive

\* a step has succeeded on an exact partition with MaxOsc displaced oscillators
C1_Witness ==
  /\ StepSucceeded
  /\ ExactPartition
  /\ Len(input.oscillators_id_list.elems) = MaxOsc
  /\ last_step.harmonic_energy_pot > 0

\* C2: a configuration whose oscillator ids and base atom ids do not cover the atoms
\* exactly once (an id given twice, an id outside 0 .. n_atoms-1) fails with an error: no
\* record is ever appended to its history.
C2_MalformedPartitionFails ==
  ~ExactPartition => Len(interactive_cache.energy_pot) = 0

\* C3: a run_if_interactive called while no session of the base job is open (before
\* validate_ready_to_run opened one, after interactive_close closed it) raises and
\* appends nothing to the history.
C3_StepOnlyWhileOpen ==
  [][(last_call'.op = "run_if_interactive" /\ base_job.sessions_open = 0)
       => (last_call'.err # "none" /\ interactive_cache' = interactive_cache)]_vars

InvalidConfiguration(run_mode, inp) ==
  \/ run_mode # "interactive"
  \/ inp.positions.isNone
  \/ inp.oscillators_id_list.type # "list"
  \/ inp.oscillators_id_list.etype \notin {"", "int"}
  \/ inp.spring_constants_list.type # "list"
  \/ inp.spring_constants_list.etype \notin {"", "int", "float"}
  \/ Len(inp.oscillators_id_list.elems) # Len(inp.spring_constants_list.elems)

\* C5: validate_ready_to_run called with a run mode other than "interactive", without
\* positions, with an oscillators_id_list or spring_constants_list that is not a list of
\* the required element type, or with lists of different lengths raises, and no base job
\* has been created, opened or saved.
C5_ValidationBeforeEngine ==
  [][(last_call'.op = "validate_ready_to_run"
        /\ InvalidConfiguration(server_run_mode, input'))
       => (last_call'.err # "none" /\ base_job' = NoBaseJob)]_vars

\* validate_ready_to_run has refused lists of different lengths, the other inputs being
\* valid
C5_Witness ==
  /\ last_call = [op |-> "validate_ready_to_run", err |-> "AssertionError"]
  /\ ~input.positions.isNone
  /\ Len(input.oscillators_id_list.elems) # Len(input.spring_constants_list.elems)
  /\ base_job = NoBaseJob

\* C6: the history is an append-only log: a successful step adds one record and leaves
\* the forces and the energy of every earlier record as they were.
C6_HistoryAppendOnly ==
  [][(last_call'.op = "run_if_interactive" /\ last_call'.err = "none")
       => /\ Len(HistoryForces') = Len(HistoryForces) + 1
          /\ Len(HistoryEnergy') = Len(HistoryEnergy) + 1
          /\ \A i \in 1..Len(HistoryForces) :
               HistoryForces'[i] = HistoryForces[i] /\ HistoryEnergy'[i] = HistoryEnergy[i]]_vars

\* C7: a step that raises (the base engine raises, or the harmonic computation raises
\* after the base forces were obtained) leaves the history with the length and the
\* contents it had.
C7_FailedStepPreservesHistory ==
  [][(last_call'.op = "run_if_interactive" /\ last_call'.err # "none")
       => (HistoryForces' = HistoryForces /\ HistoryEnergy' = HistoryEnergy)]_vars

\* C8: a job with one or more records that is loaded from the store right after
\* interactive_close has the forces and energy_pot history that the closed job has in
\* memory, and its input.
C8_ReloadRoundTrip ==
  [][(last_call = [op |-> "interactive_close", err |-> "none"]
        /\ Len(HistoryEnergy) >= 1
        /\ last_call'.op = "from_hdf")
       => /\ reloaded'.v.output.forces = output.forces
          /\ reloaded'.v.output.energy_pot = output.energy_pot
          /\ reloaded'.v.input = input]_vars

\* the sub-job behind handle is absent or its status is not finished
NotFinished(s, handle) == handle.isNone \/ StatusOf(s, handle) # "finished"

\* C9: get_npt_md_structure, get_phonopy_output and get_tild_output, called while the
\* sub-job they harvest is absent or not finished, raise and leave the job as it was: no
\* output field, no internal field, no cleanup, no new sub-job.
C9_HarvestGated ==
  [][/\ (fe_call'.op = "get_npt_md_structure" /\ NotFinished(fe, fe._npt_job))
          => (fe_call'.err # "none" /\ fe' = fe)
     /\ (fe_call'.op = "get_phonopy_output" /\ NotFinished(fe, fe._phonopy_job))
          => (fe_call'.err # "none" /\ fe' = fe)
     /\ (fe_call'.op = "get_tild_output" /\ NotFinished(fe, fe._tild_job))
          => (fe_call'.err # "none" /\ fe' = fe)]_vars

\* get_tild_output has refused a TILD job that has been run but is not finished
C9_Witness ==
  /\ fe_call = [op |-> "get_tild_output", err |-> "ValueError"]
  /\ ~fe._tild_job.isNone
  /\ StatusOf(fe, fe._tild_job) = "warning"
  /\ "fe_del_harm_to_eam" \notin fe.output

\* C10: get_A_to_G_correction called with an NPT-MD job that exists but is not finished
\* raises and does not set output.fe_A_to_G_correction.
C10_AToGNeedsFinishedNpt ==
  [][(fe_call'.op = "get_A_to_G_correction"
        /\ ~fe._npt_job.isNone /\ StatusOf(fe, fe._npt_job) # "finished")
       => (fe_call'.err # "none" /\ fe'.output = fe.output)]_vars

\* the reference of the integration is missing: no minimized structure, or no spring
\* constant and no force constants
TildReferenceMissing(s) ==
  \/ s._minimized_structure.isNone
  \/ (s.spring_constant.isNone /\ "force_constants" \notin s.output)

\* C11: run_harmonic_to_eam_tild called while the minimized structure (or, with no spring
\* constant, output.force_constants) is missing raises before any of ref_job_a, ref_job_b
\* and tild_job is created or saved, and leaves _tild_job unset.
C11_TildPreconditionBeforeJobs ==
  [][(fe_call'.op = "run_harmonic_to_eam_tild" /\ TildReferenceMissing(fe))
       => /\ fe_call'.err # "none"
          /\ fe'.jobs = fe.jobs
          /\ fe'._tild_job = fe._tild_job]_vars

\* C12: get_G_per_atom called while get_tild_output has not succeeded, whatever else has
\* run, raises the ValueError of line 289 and sets neither output.fe_G_per_atom nor
\* output.fe_G_per_atom_se.
C12_GPerAtomNeedsTildOutput ==
  [][(fe_call'.op = "get_G_per_atom"
        /\ fe._del_harm_to_eam.isNone /\ "fe_del_harm_to_eam" \notin fe.output)
       => /\ fe_call'.err = "ValueError"
          /\ fe'.output = fe.output]_vars

\* the sub-jobs that run_static delegates to, in the order of their stages
DelegatedJobs(s) ==
  IF s.spring_constant.isNone THEN <<"npt_job", "phonopy_job", "tild_job">>
  ELSE <<"npt_job", "tild_job">>

\* sub-job i of d is the first that did not end finished
FirstUnfinished(s, d, i) ==
  /\ s.jobs[d[i]] \in {"warning", "aborted"}
  /\ \A j \in 1..(i - 1) : s.jobs[d[j]] = "finished"

\* what C13 says of a run in which sub-job i of d is the first that did not end finished,
\* but for the job status
HaltedAt(d, i) ==
  /\ fe_call'.err # "none"
  /\ \A j \in (i + 1)..Len(d) : fe'.jobs[d[j]] = fe.jobs[d[j]]
  /\ fe'.output \cap {"fe_G_per_atom", "fe_G_per_atom_se"} \subseteq fe.output
  /\ fe'.stored = fe.stored
  /\ fe.output \subseteq fe'.output

\* C13: a run of the job in which the NPT-MD, phonopy or TILD sub-job ends in a status
\* other than finished executes no later stage (the later sub-jobs are not touched, nothing
\* is combined or saved), ends with the job status "failed", and keeps every output that
\* was there before the failure.
C13_RunStaticHaltsFailed ==
  [][fe_call'.op = "run"
       => \A i \in DOMAIN DelegatedJobs(fe) :
            FirstUnfinished(fe', DelegatedJobs(fe), i)
              => (HaltedAt(DelegatedJobs(fe), i) /\ fe'.status = "failed")]_vars

\* C14: a removal that fails inside _cleanup_job is swallowed: get_npt_md_structure,
\* get_phonopy_output and get_tild_output, called on a finished sub-job, raise no error of
\* the cleanup and produce their result whether or not the files could be removed (the
\* minimization job's own failure apart).
C14_CleanupBestEffort ==
  [][/\ (fe_call'.op = "get_npt_md_structure" /\ ~NotFinished(fe, fe._npt_job)
           /\ fe_call'.err # "RuntimeError")
          => (fe_call'.err = "none" /\ "minimized_structure" \in fe'.output)
     /\ (fe_call'.op = "get_phonopy_output" /\ ~NotFinished(fe, fe._phonopy_job))
          => (fe_call'.err = "none" /\ "fe_quantum_harm" \in fe'.output)
     /\ (fe_call'.op = "get_tild_output" /\ ~NotFinished(fe, fe._tild_job))
          => (fe_call'.err = "none" /\ "fe_del_harm_to_eam" \in fe'.output)]_vars

\* a step has just succeeded with one oscillator of spring constant 2.0 that is 1.0 Angstrom
\* from its reference position
C15_Case ==
  /\ StepSucceeded
  /\ input.spring_constants_list.elems = <<2>>
  /\ Len(input.oscillators_id_list.elems) = 1
  /\ LET m == input.oscillators_id_list.elems[1] + 1
     IN input.positions.v[m] - input.structure.v[m] = 10

C16_Case ==
  /\ StepSucceeded
  /\ Len(interactive_cache.energy_pot) = 1
  /\ input.structure.v = <<0, 10>>
  /\ input.oscillators_id_list.elems = <<1>>
  /\ input.spring_constants_list.elems = <<5>>
  /\ input.positions.v[2] - input.structure.v[2] = 2
  /\ last_step.base_forces = <<1>>
  /\ last_step.base_energy_pot = 40

C17_SessionClosedOnce ==
  /\ base_job.sessions_open <= 1
  /\ base_job.closed <= base_job.opened

\* the harmonic reference that job s has followed so far: phonopy and its outputs are
\* untouched, or fe_classical_harm is
OnlyClassical(s) ==
  /\ s.jobs["phonopy_job"] = "none" /\ s.jobs["phonon_ref_job"] = "none"
  /\ s.output \cap {"fe_quantum_harm", "force_constants"} = {}
  /\ s.force_constants \in {None, Some("spring_constant")}
  /\ s.fe_ref \in {None, Some("fe_classical_harm")}
OnlyQuantum(s) ==
  /\ "fe_classical_harm" \notin s.output
  /\ s.force_constants \in {None, Some("output.force_constants")}
  /\ s.fe_ref \in {None, Some("fe_quantum_harm")}

\* C18: a run of run_static follows one harmonic reference, chosen by whether
\* input.spring_constant is supplied.  Supplied: phonopy is never run and its outputs are
\* never set, and a run that completes has computed fe_classical_harm, given the spring
\* constant to ref_job_a and built fe_G_per_atom on fe_classical_harm.  Not supplied:
\* fe_classical_harm is never computed, and a run that completes has run and harvested
\* phonopy, given output.force_constants to ref_job_a and built fe_G_per_atom on
\* fe_quantum_harm.
C18_OneHarmonicBranch ==
  [][fe_call'.op = "run"
       => IF ~fe.spring_constant.isNone
            THEN /\ OnlyClassical(fe')
                 /\ fe_call'.err = "none"
                      => /\ "fe_classical_harm" \in fe'.output
                         /\ fe'.force_constants = Some("spring_constant")
                         /\ fe'.fe_ref = Some("fe_classical_harm")
            ELSE /\ OnlyQuantum(fe')
                 /\ fe_call'.err = "none"
                      => /\ fe'.jobs["phonopy_job"] = "finished"
                         /\ {"fe_quantum_harm", "force_constants"} \subseteq fe'.output
                         /\ fe'.force_constants = Some("output.force_constants")
                         /\ fe'.fe_ref = Some("fe_quantum_harm")]_vars

\* a run with a spring constant has gone through to fe_G_per_atom without phonopy
C18_Witness ==
  /\ fe_call = [op |-> "run", err |-> "none"]
  /\ ~fe.spring_constant.isNone
  /\ fe.force_constants = Some("spring_constant")
  /\ fe.fe_ref = Some("fe_classical_harm")
  /\ "fe_G_per_atom" \in fe.output

\* what reading an attribute must give after job was assigned to it: the job loaded from
\* job.id
LoadedFrom(job) ==
  \E r \in load(job.id) : mlip_call.raises = r.raises /\ mlip_call.job = r.job

\* C19: once a job S has been assigned to structures and a job P to potential, in either
\* order, reading structures returns the job loaded from S's id and reading potential the
\* job loaded from P's id, whatever was assigned to the other attribute.
C19_AttributeRoundTrip ==
  (mlip_call.op = "get" /\ ~mlip_assigned.potential.isNone
     /\ ~mlip_assigned.structures.isNone)
    => LoadedFrom(mlip_assigned[mlip_call.attr].v)

\* C20: after a successful run_if_interactive and before any close,
\* interactive_forces_getter and interactive_energy_pot_getter return the forces and the
\* potential energy that this step computed.
C20_GettersReturnLastStep ==
  (StepSucceeded /\ base_job.closed = 0)
    => /\ interactive_forces_getter(output) = [err |-> "none", val |-> arrays[_forces]]
       /\ interactive_energy_pot_getter(output) = [err |-> "none", val |-> LastRecordEnergy]

\* every sub-job that a run of job s delegates to has ended finished
AllDelegatedFinished(s) ==
  /\ \A i \in DOMAIN DelegatedJobs(s) : s.jobs[DelegatedJobs(s)[i]] = "finished"
  /\ s.jobs["min_npt_job"] = "finished"

\* C21: a run of run_static in which every delegated sub-job ends finished, in the
\* spring-constant and in the phonopy branch, raises no error, has combined
\* fe_G_per_atom and ends with the output persisted by to_hdf.
C21_RunStaticInOrder ==
  [][(fe_call'.op = "run" /\ AllDelegatedFinished(fe'))
       => /\ fe_call'.err = "none"
          /\ "fe_G_per_atom" \in fe'.output
          /\ fe'.stored = Some(fe'.output)]_vars

\* the job has just been loaded from the store
JustReloaded == fe_call = [op |-> "from_hdf", err |-> "none"]

\* the results that get_G_per_atom combines, for the branch of job s
CombinedResults(s) ==
  {IF s.spring_constant.isNone THEN "fe_quantum_harm" ELSE "fe_classical_harm",
   "minimized_energy", "fe_del_harm_to_eam", "fe_del_harm_to_eam_se",
   "fe_A_to_G_correction", "fe_com", "minimized_structure"}

\* C22: on a job that was saved and loaded again, a stage whose upstream results are among
\* the loaded outputs passes its precondition check: get_G_per_atom when all the results
\* it combines were persisted, run_phonopy when minimized_structure was persisted.
C22_ResumeAfterReload ==
  [][JustReloaded
       => /\ (fe_call'.op = "get_G_per_atom" /\ CombinedResults(fe) \subseteq fe.output)
               => fe_call'.err = "none"
          /\ (fe_call'.op = "run_phonopy" /\ "minimized_structure" \in fe.output)
               => fe_call'.err # "ValueError"]_vars

\* C23: get_classical_harmonic_free_energy called while the atomic mass or the atom count
\* is not set, or with no spring constant, raises and leaves the whole job, its
\* output.fe_classical_harm included, as it was.
C23_ClassicalHarmonicGated ==
  [][(fe_call'.op = "get_classical_harmonic_free_energy"
        /\ (fe._mass.isNone \/ fe._n_atoms.isNone \/ fe.spring_constant.isNone))
       => /\ fe_call'.err # "none"
          /\ fe' = fe
          /\ ("fe_classical_harm" \in fe'.output) = ("fe_classical_harm" \in fe.output)]_vars

\* the call has been refused on a job that has a spring constant but no mass yet
C23_Witness ==
  /\ fe_call = [op |-> "get_classical_harmonic_free_energy", err |-> "TypeError"]
  /\ ~fe.spring_constant.isNone
  /\ fe._mass.isNone
  /\ "fe_classical_harm" \notin fe.output

\* validate_ready_to_run has built the base structure and the base atom ids
BaseStructureSet == ~_base_atom_ids.isNone /\ ~_base_structure.isNone /\ base_job.exists

\* C24: for distinct oscillator ids in 0 .. n_atoms-1, in any order, the base structure
\* has n_atoms - len(oscillators_id_list) atoms, its j-th atom is the atom of the full
\* structure at index _base_atom_ids[j], and it is the structure of the base engine, so
\* that there is one base atom id for each atom the engine gets and answers for.
C24_BaseStructureMatchesIds ==
  (BaseStructureSet /\ ExactPartition) =>
    /\ Len(_base_structure.v)
         = Len(input.structure.v) - Len(input.oscillators_id_list.elems)
    /\ Len(_base_atom_ids.v) = Len(_base_structure.v)
    /\ \A j \in 1..Len(_base_structure.v) :
         _base_structure.v[j] = input.structure.v[_base_atom_ids.v[j] + 1]
    /\ base_job.structure = _base_structure.v

\* a base structure has been built for two oscillators given in descending order
C24_Witness ==
  /\ BaseStructureSet
  /\ ExactPartition
  /\ input.oscillators_id_list.elems = <<1, 0>>
  /\ Len(_base_structure.v) = NAtoms - 2

\* the atom (1-based) that oscillators_id_list[i] names, and its displacement from the
\* reference under the minimum-image convention
OscillatorAtom(i) ==
  NormIndex(input.oscillators_id_list.elems[i], Len(input.structure.v)) + 1
OscillatorDisplacement(i) ==
  find_mic(input.positions.v[OscillatorAtom(i)] - input.structure.v[OscillatorAtom(i)])

\* the entries of oscillators_id_list are an ordering of a set of atoms: none is named twice
OscillatorAtomsDistinct ==
  \A i, j \in 1..Len(input.oscillators_id_list.elems) :
    OscillatorAtom(i) = OscillatorAtom(j) => i = j

\* the forces array, shaped like the positions given at validate_ready_to_run, has one
\* row for each atom of input.structure
OneRowPerAtom == Len(LastRecordForces) = Len(input.structure.v)

\* C25: after a successful step on ids that name each oscillator once, in any order, the force
\* recorded for atom oscillators_id_list[i] is -spring_constants_list[i] times the
\* displacement of that atom, and harmonic_energy_pot is the sum over i of -0.5 times that
\* displacement times that force (positions holding one row per atom).
C25_SpringFollowsItsAtom ==
  (StepSucceeded /\ OneRowPerAtom /\ OscillatorAtomsDistinct) =>
    /\ \A i \in 1..Len(input.oscillators_id_list.elems) :
         LastRecordForces[OscillatorAtom(i)]
           = (-input.spring_constants_list.elems[i]) * OscillatorDisplacement(i)
    /\ last_step.harmonic_energy_pot
         = SumSeq([i \in 1..Len(input.oscillators_id_list.elems) |->
                     MinusHalf(OscillatorDisplacement(i)
                               * LastRecordForces[OscillatorAtom(i)])])

\* a step has succeeded with the ids in descending order, the two springs different and
\* the two oscillators displaced differently
C25_Witness ==
  /\ StepSucceeded
  /\ OneRowPerAtom
  /\ input.oscillators_id_list.elems = <<1, 0>>
  /\ input.spring_constants_list.elems = <<2, 5>>
  /\ OscillatorDisplacement(1) # 0
  /\ OscillatorDisplacement(2) # 0
  /\ OscillatorDisplacement(1) # OscillatorDisplacement(2)

\* the structure property (lines 86-92): input.structure, or the structure of the
\* reference job while input.structure is None
structure_getter(inp) == IF inp.structure.isNone THEN inp.ref_job ELSE inp.structure

C27_ThermalizationDiscarded ==
  [][(fe_call'.op = "get_A_to_G_correction" /\ fe_call'.err = "none")
       => fe'.fit_from = Some(md_thermalization_steps \div md_sampling_steps)]_vars

\* C28: after a successful get_G_per_atom, fe_G_per_atom times n_atoms is the sum of the
\* harmonic reference, minimized_energy, fe_del_harm_to_eam, fe_A_to_G_correction and
\* fe_com, and fe_G_per_atom_se times n_atoms is the propagated uncertainty of that sum,
\* the standard error of fe_del_harm_to_eam.
C28_PerAtomValueAndError ==
  (fe_call = [op |-> "get_G_per_atom", err |-> "none"]) =>
    /\ fe.G.v.fe_G_per_atom * fe.results.n_atoms = anharm_fe_nominal(fe.results)
    /\ fe.G.v.fe_G_per_atom_se * fe.results.n_atoms = fe.results.tild_free_energy_se

\* the first half of C28: the value is the sum divided by n_atoms
C28_PerAtomValue ==
  (fe_call = [op |-> "get_G_per_atom", err |-> "none"]) =>
    fe.G.v.fe_G_per_atom * fe.results.n_atoms = anharm_fe_nominal(fe.results)

====
